---- MODULE Spec2Model ----
(***************************************************************************)
(* Model of the ReaLHF placement planner:                                  *)
(*   - GroupedRPCExecutions          (src/profiler/enumerate.py)           *)
(*   - enumerate_rpc_executions      (src/reallm/profiler/enumerate.py and *)
(*                                    the older src/profiler/enumerate.py) *)
(*   - enumerate_model_device_mappings (src/profiler/enumerate.py)         *)
(*   - build_graph                   (src/reallm/profiler/enumerate.py)    *)
(*   - send_tensor_tuple_meta, recv_tensor_tuple_meta                      *)
(*       (src/reallm/impl/model/parallelism/pipeline_parallel/p2p.py)      *)
(* Memory is counted in GiB (1 unit = 1024**3 bytes), so that             *)
(* GPU_MEM_CAP = 80 * (1024**3) bytes is 80 units.                         *)
(***************************************************************************)
EXTENDS Integers, Sequences, FiniteSets, TLC

VARIABLES
    \* a stand-alone GroupedRPCExecutions object and the executions added to it
    grouped, added,
    \* one call of enumerate_rpc_executions: position, arguments, returned list
    enum_pc, enum_args, feasible,
    \* enumerate_model_device_mappings: position and locals
    pc, exp, rpc_exe_table, sorted_model_rpc_names, index,
    count, inner_count, valid_count,
    grouped_rpc_exe, i, bi, break_flag, current_mem,
    \* build_graph: position, arguments, loop variables, the list it builds
    graph_pc, rpcs, num_epoch, epoch_dependency_interval,
    epoch_id, rpc_i, rpc_instances,
    \* send_tensor_tuple_meta on one pipeline stage: argument, position, loop
    \* index, and the messages it has passed to send()
    tensor_tuple, send_pc, send_idx, sent,
    \* the messages in flight from the sending stage to the receiving stage
    channel,
    \* recv_tensor_tuple_meta on the next stage: position, locals, the
    \* messages its recv() calls have completed with, the buffers it returns
    recv_pc, num_tensors, recv_idx, recv_ndims_dtype, recv_shapes_and_dtypes,
    received, buffers

grpVars == <<grouped, added>>
enumVars == <<enum_pc, enum_args, feasible>>
searchVars == <<pc, exp, rpc_exe_table, sorted_model_rpc_names, index,
                count, inner_count, valid_count,
                grouped_rpc_exe, i, bi, break_flag, current_mem>>
graphVars == <<graph_pc, rpcs, num_epoch, epoch_dependency_interval,
               epoch_id, rpc_i, rpc_instances>>
p2pVars == <<tensor_tuple, send_pc, send_idx, sent, channel,
             recv_pc, num_tensors, recv_idx, recv_ndims_dtype,
             recv_shapes_and_dtypes, received, buffers>>
vars == <<grpVars, enumVars, searchVars, graphVars, p2pVars>>

(***************************************************************************)
(* Bounds and program constants                                            *)
(***************************************************************************)
\* number of add() calls made on the stand-alone GroupedRPCExecutions
MaxAdds == 3
\* number of RPCs of an experiment
MaxRPCs == 3
\* number of iterations of the search loop taken as one step by SpecBudget
LoopStride == 100
\* number of RPCs of a single-epoch graph given to build_graph
MaxGraphRPCs == 3
\* largest num_epoch and epoch_dependency_interval given to build_graph
MaxEpochs == 3
\* largest number of elements of a tensor tuple given to send_tensor_tuple_meta
MaxTupleLen == 2

GPU_MEM_CAP == 80
MEM_INDEX == 1
TOP_K == 10
BUDGET == 200000

(***************************************************************************)
(* Sequence helpers (Python built-ins sum, max, in, list.index)            *)
(***************************************************************************)
Max(a, b) == IF a >= b THEN a ELSE b

RECURSIVE SeqSum(_)
SeqSum(s) == IF s = <<>> THEN 0 ELSE s[1] + SeqSum(Tail(s))

RECURSIVE SeqMax(_)
SeqMax(s) == IF Len(s) = 1 THEN s[1] ELSE Max(s[1], SeqMax(Tail(s)))

InSeq(x, s) == \E k \in 1..Len(s) : s[k] = x

IndexOf(x, s) == CHOOSE k \in 1..Len(s) : s[k] = x /\ \A l \in 1..(k-1) : s[l] # x

(***************************************************************************)
(* Device meshes and parallel strategies                                   *)
(***************************************************************************)
\* a mesh of n devices 1..n spread over n_nodes nodes
make_device_mesh(n, n_nodes) == [devices |-> 1..n, n_nodes |-> n_nodes]

\* the aligned blocks of s devices inside 1..n, lowest first
mesh_blocks(device_mesh, s) ==
    LET n == Cardinality(device_mesh.devices)
        per_node == n \div device_mesh.n_nodes
    IN [b \in 1..(n \div s) |->
            [devices |-> ((b-1)*s + 1)..(b*s), n_nodes |-> Max(1, s \div per_node)]]

RECURSIVE sub_meshes_from(_, _)
sub_meshes_from(device_mesh, s) ==
    IF s > Cardinality(device_mesh.devices) THEN <<>>
    ELSE mesh_blocks(device_mesh, s) \o sub_meshes_from(device_mesh, 2*s)

find_sub_device_meshes(device_mesh) ==
    LET blocks == sub_meshes_from(device_mesh, 1)
    IN IF InSeq(device_mesh, blocks) THEN blocks ELSE Append(blocks, device_mesh)

DeviceMesh_overlap(a, b) == a.devices \cap b.devices # {}

is_all_overlap(device_meshes, device_mesh) ==
    \E k \in 1..Len(device_meshes) : DeviceMesh_overlap(device_meshes[k], device_mesh)

\* every (num_dp, num_pp, num_mp) whose product is the device count
find_parallel_strategies(sub_device_mesh) ==
    LET n == Cardinality(sub_device_mesh.devices)
        dp(k) == ((k-1) \div n) + 1
        pp(k) == ((k-1) % n) + 1
        all == [k \in 1..(n*n) |->
                  [num_dp |-> dp(k), num_pp |-> pp(k), num_mp |-> n \div (dp(k) * pp(k))]]
    IN SelectSeq(all, LAMBDA p : p.num_dp * p.num_pp * p.num_mp = n)

(***************************************************************************)
(* Cost estimator (external collaborator): deterministic in its inputs.    *)
(* model_config stands for everything the estimate depends on.             *)
(***************************************************************************)
estimate_memory(model_config, p) ==
    LET static_mem == model_config.param_mem \div (p.num_pp * p.num_mp)
    IN [mem_cost |-> static_mem + (model_config.act_mem \div p.num_dp),
        static_mem |-> static_mem]

estimate_time(model_config, p) ==
    (model_config.flops \div (p.num_dp * p.num_pp * p.num_mp))
        + (p.num_pp - 1) + 2 * (p.num_mp - 1)

(***************************************************************************)
(* RPC and RPCExecution (src/profiler/rpc.py)                              *)
(***************************************************************************)
RPC(model_rpc) ==
    [model_name |-> model_rpc.model_name,
     interface_type |-> model_rpc.interface_type,
     rpc_name |-> model_rpc.name]

RPCExecution(rpc, device_mesh, parallel_strategy, time_cost, mem, static_mem) ==
    [rpc |-> rpc, device_mesh |-> device_mesh, parallel_strategy |-> parallel_strategy,
     time_cost |-> time_cost, mem |-> mem, static_mem |-> static_mem,
     rpc_name |-> rpc.rpc_name]

(***************************************************************************)
(* GroupedRPCExecutions (src/profiler/enumerate.py)                        *)
(***************************************************************************)
GroupedRPCExecutions ==
    [rpc_exe_groups |-> <<>>, rpc_exe_group_models |-> <<>>,
     mem_static |-> <<>>, mem_active |-> <<>>, mem_costs |-> <<>>]

\* what add() records as a model's "static" entry
static_entry(rpc_exe) == rpc_exe.mem

\* what add() records as a model's "active" entry
active_entry(rpc_exe) == rpc_exe.mem - rpc_exe.static_mem

\* the cost add() gives a group it has just joined
group_cost_active_only(mem_static_i, mem_active_i) == SeqMax(mem_active_i)

group_cost(mem_static_i, mem_active_i) == SeqSum(mem_static_i) + SeqMax(mem_active_i)

\* the cost add() gives a new group
new_group_cost_static(rpc_exe) == rpc_exe.static_mem

new_group_cost(rpc_exe) == rpc_exe.mem

\* if rpc_exe.rpc.model_name not in self.rpc_exe_group_models[i]
model_never_listed(name, models) == FALSE

model_listed(name, models) == InSeq(name, models)

\* device_meshes = [x.device_mesh for x in group]
group_device_meshes_dropped(group) == <<>>

group_device_meshes(group) == [k \in 1..Len(group) |-> group[k].device_mesh]

add(self, rpc_exe) ==
    LET n == Len(self.rpc_exe_groups)
        name == rpc_exe.rpc.model_name
        hit(g) == is_all_overlap(group_device_meshes(self.rpc_exe_groups[g]),
                                 rpc_exe.device_mesh)
        known(g) == model_listed(name, self.rpc_exe_group_models[g])
        j(g) == IndexOf(name, self.rpc_exe_group_models[g])
        group(g) == IF hit(g) THEN Append(self.rpc_exe_groups[g], rpc_exe)
                    ELSE self.rpc_exe_groups[g]
        models(g) == IF hit(g) /\ ~known(g)
                     THEN Append(self.rpc_exe_group_models[g], name)
                     ELSE self.rpc_exe_group_models[g]
        static(g) == IF ~hit(g) THEN self.mem_static[g]
                     ELSE IF ~known(g)
                          THEN Append(self.mem_static[g], static_entry(rpc_exe))
                          ELSE [self.mem_static[g] EXCEPT
                                   ![j(g)] = Max(@, static_entry(rpc_exe))]
        active(g) == IF ~hit(g) THEN self.mem_active[g]
                     ELSE IF ~known(g)
                          THEN Append(self.mem_active[g], active_entry(rpc_exe))
                          ELSE [self.mem_active[g] EXCEPT
                                   ![j(g)] = Max(@, active_entry(rpc_exe))]
        cost(g) == IF hit(g) THEN group_cost(static(g), active(g))
                   ELSE self.mem_costs[g]
        overlap_flag == \E g \in 1..n : hit(g)
    IN IF overlap_flag
       THEN [rpc_exe_groups |-> [g \in 1..n |-> group(g)],
             rpc_exe_group_models |-> [g \in 1..n |-> models(g)],
             mem_static |-> [g \in 1..n |-> static(g)],
             mem_active |-> [g \in 1..n |-> active(g)],
             mem_costs |-> [g \in 1..n |-> cost(g)]]
       ELSE [rpc_exe_groups |-> Append(self.rpc_exe_groups, <<rpc_exe>>),
             rpc_exe_group_models |-> Append(self.rpc_exe_group_models, <<name>>),
             mem_static |-> Append(self.mem_static, <<static_entry(rpc_exe)>>),
             mem_active |-> Append(self.mem_active, <<active_entry(rpc_exe)>>),
             mem_costs |-> Append(self.mem_costs, new_group_cost(rpc_exe))]

total_mem_cost(self) == SeqSum(self.mem_costs)

(***************************************************************************)
(* enumerate_rpc_executions (src/reallm/profiler/enumerate.py)             *)
(***************************************************************************)
RECURSIVE strategy_pairs_from(_, _)
strategy_pairs_from(sub_device_meshes, k) ==
    IF k > Len(sub_device_meshes) THEN <<>>
    ELSE LET ps == find_parallel_strategies(sub_device_meshes[k])
         IN [l \in 1..Len(ps) |-> [sub_device_mesh |-> sub_device_meshes[k], p |-> ps[l]]]
                \o strategy_pairs_from(sub_device_meshes, k + 1)

\* the (sub_device_mesh, p) pairs in the order the two nested loops visit them
strategy_pairs(device_mesh) == strategy_pairs_from(find_sub_device_meshes(device_mesh), 1)

min_bs_single(rpc, p, n_ppo_minibatches) ==
    IF rpc.interface_type = "TRAIN_STEP"
    THEN p.num_dp * p.num_pp * n_ppo_minibatches
    ELSE p.num_dp * p.num_pp

min_bs(rpc, p, n_ppo_minibatches) ==
    IF rpc.interface_type = "TRAIN_STEP"
    THEN 2 * p.num_dp * p.num_pp * n_ppo_minibatches
    ELSE p.num_dp * p.num_pp

batch_too_small(rpc, p, n_ppo_minibatches) ==
    min_bs(rpc, p, n_ppo_minibatches) > rpc.min_n_seqs

fanout_unchecked(rpc, p) == FALSE

fanout_too_wide(rpc, p) ==
    p.num_mp * p.num_dp > 8 /\ rpc.interface_type = "TRAIN_STEP"

pipeline_too_deep(device_mesh, p) == p.num_pp > Max(device_mesh.n_nodes, 8)

fits_memory_inclusive(mem_cost) == mem_cost <= GPU_MEM_CAP

fits_memory(mem_cost) == mem_cost < GPU_MEM_CAP

make_execution(rpc, pair) ==
    LET est == estimate_memory(rpc.model_config, pair.p)
    IN RPCExecution(RPC(rpc), pair.sub_device_mesh, pair.p,
                    estimate_time(rpc.model_config, pair.p),
                    est.mem_cost * MEM_INDEX, est.static_mem * MEM_INDEX)

enumerate_rpc_executions(rpc, device_mesh, n_ppo_minibatches) ==
    LET emitted(pair) ==
            /\ ~batch_too_small(rpc, pair.p, n_ppo_minibatches)
            /\ ~fanout_too_wide(rpc, pair.p)
            /\ ~pipeline_too_deep(device_mesh, pair.p)
            /\ fits_memory(make_execution(rpc, pair).mem)
        kept == SelectSeq(strategy_pairs(device_mesh), emitted)
    IN [k \in 1..Len(kept) |-> make_execution(rpc, kept[k])]

(***************************************************************************)
(* enumerate_rpc_executions, older version (src/profiler/enumerate.py)     *)
(***************************************************************************)
\* mem_cost * 1.2 < GPU_MEM_CAP
fits_memory_with_margin(mem_cost) == mem_cost * 12 < GPU_MEM_CAP * 10

make_execution_exp(rpc, pair) ==
    LET est == estimate_memory(rpc.model_config, pair.p)
    IN RPCExecution(RPC(rpc), pair.sub_device_mesh, pair.p,
                    estimate_time(rpc.model_config, pair.p),
                    est.mem_cost, est.static_mem)

enumerate_rpc_executions_exp(rpc, device_mesh) ==
    LET emitted(pair) == fits_memory_with_margin(make_execution_exp(rpc, pair).mem)
        kept == SelectSeq(strategy_pairs(device_mesh), emitted)
    IN [k \in 1..Len(kept) |-> make_execution_exp(rpc, kept[k])]

(***************************************************************************)
(* enumerate_model_device_mappings (src/profiler/enumerate.py)             *)
(* Python lists are sequences; At(l, k) is l[k] with Python's 0-based k.   *)
(***************************************************************************)
At(l, k) == l[k + 1]

\* feasible.sort(key=lambda x: x.time_cost): stable, ascending
sort_by_time_cost_skipped(l) == l

sort_by_time_cost(l) ==
    LET n == Len(l)
        pos(k) == 1 + Cardinality({ m \in 1..n :
                        \/ l[m].time_cost < l[k].time_cost
                        \/ (l[m].time_cost = l[k].time_cost /\ m < k) })
    IN [q \in 1..n |-> l[CHOOSE k \in 1..n : pos(k) = q]]

\* avg_time_cost.sort(key=lambda x: x[0], reverse=True): stable, descending
sort_by_key_reverse(l) ==
    LET n == Len(l)
        pos(k) == 1 + Cardinality({ m \in 1..n :
                        \/ l[m][1] > l[k][1]
                        \/ (l[m][1] = l[k][1] /\ m < k) })
    IN [q \in 1..n |-> l[CHOOSE k \in 1..n : pos(k) = q]]

\* sum([x.time_cost for x in feasible][:10])
top_k_time_cost_sum(l) ==
    SeqSum([k \in 1..(IF Len(l) < TOP_K THEN Len(l) ELSE TOP_K) |-> l[k].time_cost])

\* ten times the key sum(...) / 10 + i of the RPC at 0-based position i_rpc
avg_time_cost_entry(l, i_rpc, name) == << top_k_time_cost_sum(l) + TOP_K * i_rpc, name >>

\* feasible[0] raises IndexError on an empty list
first_candidate_unread(l) == FALSE

first_candidate_missing(l) == l = <<>>

\* current_mem > GPU_MEM_CAP * 1.2
over_offload_space(mem) == mem * 10 > GPU_MEM_CAP * 12

\* if index[bi] + 1 < len(rpc_exe_table[sorted_model_rpc_names[bi]])
can_increment_inclusive(cursor, n_candidates) == cursor + 1 <= n_candidates

can_increment(cursor, n_candidates) == cursor + 1 < n_candidates

\* the while loop: the position that is incremented, or -1
RECURSIVE carry_to(_, _, _, _)
\* no carry: the cursor at bi is incremented wherever it stands
carry_stays(idx, table, names, b) == b

carry_to(idx, table, names, b) ==
    IF b < 0 THEN b
    ELSE IF can_increment(At(idx, b), Len(table[At(names, b)])) THEN b
    ELSE carry_to(idx, table, names, b - 1)

\* index[bi] += 1, when the while loop found a position
increment_cursor_twice(idx, b) == IF b >= 0 THEN [idx EXCEPT ![b + 1] = @ + 2] ELSE idx

increment_cursor_skipped(idx, b) == idx

increment_cursor(idx, b) == IF b >= 0 THEN [idx EXCEPT ![b + 1] = @ + 1] ELSE idx

\* for j in range(bi + 1, len(exp.model_rpcs)): index[j] = 0
reset_skipped(idx, b) == idx

reset_after(idx, b) == [k \in 1..Len(idx) |-> IF k - 1 > b THEN 0 ELSE idx[k]]

\* if outer_loop_break_flag or inner_count >= 200000: break
budget_always_reached(n) == TRUE

budget_reached(n) == n >= BUDGET

\* if not break_flag: valid_count += 1
counts_as_valid_always(flag) == TRUE

counts_as_valid(flag) == ~flag

(***************************************************************************)
(* Parts of the state a specification does not use stay at these values    *)
(***************************************************************************)
GroupIdle == grouped = GroupedRPCExecutions /\ added = <<>>

EnumIdle == enum_pc = "idle" /\ enum_args = <<>> /\ feasible = <<>>

SearchIdle ==
    /\ pc = "idle" /\ exp = <<>> /\ rpc_exe_table = <<>>
    /\ sorted_model_rpc_names = <<>> /\ index = <<>>
    /\ count = 0 /\ inner_count = 0 /\ valid_count = 0
    /\ grouped_rpc_exe = GroupedRPCExecutions
    /\ i = 0 /\ bi = 0 /\ break_flag = FALSE /\ current_mem = 0

P2PIdle ==
    /\ tensor_tuple = <<>> /\ send_pc = "idle" /\ send_idx = 0 /\ sent = <<>>
    /\ channel = <<>>
    /\ recv_pc = "idle" /\ num_tensors = 0 /\ recv_idx = 0 /\ recv_ndims_dtype = <<>>
    /\ recv_shapes_and_dtypes = <<>> /\ received = <<>> /\ buffers = <<>>

GraphIdle ==
    /\ graph_pc = "idle" /\ rpcs = <<>>
    /\ num_epoch = 0 /\ epoch_dependency_interval = 0
    /\ epoch_id = 0 /\ rpc_i = 0 /\ rpc_instances = <<>>

(***************************************************************************)
(* Specification SpecGroup: add() calls on one GroupedRPCExecutions        *)
(***************************************************************************)
GroupMesh == make_device_mesh(2, 1)

GroupModelRPCs ==
    { [name |-> "actor_gen", model_name |-> "actor", interface_type |-> "GENERATE"],
      [name |-> "critic_inf", model_name |-> "critic", interface_type |-> "INFERENCE"] }

\* (mem, static_mem) of the executions added
GroupCosts == { <<40, 10>>, <<60, 60>> }

GroupExecutions ==
    { RPCExecution(RPC(r), find_sub_device_meshes(GroupMesh)[m],
                   find_parallel_strategies(find_sub_device_meshes(GroupMesh)[m])[1],
                   1, c[1], c[2]) :
        r \in GroupModelRPCs,
        m \in 1..Len(find_sub_device_meshes(GroupMesh)),
        c \in GroupCosts }

InitGroup == GroupIdle /\ EnumIdle /\ SearchIdle /\ GraphIdle /\ P2PIdle

GroupAdd ==
    /\ Len(added) < MaxAdds
    /\ \E rpc_exe \in GroupExecutions :
          /\ grouped' = add(grouped, rpc_exe)
          /\ added' = Append(added, rpc_exe)
    /\ UNCHANGED <<enumVars, searchVars, graphVars, p2pVars>>

NextGroup == GroupAdd

SpecGroup == InitGroup /\ [][NextGroup]_vars

(***************************************************************************)
(* Specification SpecEnum: one call of enumerate_rpc_executions            *)
(***************************************************************************)
EnumConfigs ==
    { [param_mem |-> 40, act_mem |-> 0, flops |-> 64],
      [param_mem |-> 160, act_mem |-> 0, flops |-> 256],
      [param_mem |-> 400, act_mem |-> 16, flops |-> 640] }

EnumModelRPCs ==
    [ name : {"rpc"}, model_name : {"actor"},
      interface_type : {"GENERATE", "INFERENCE", "TRAIN_STEP"},
      min_n_seqs : {8, 16, 32}, max_n_tokens : {4096},
      model_config : EnumConfigs ]

EnumMeshes == { make_device_mesh(8, 1), make_device_mesh(16, 2) }

InitEnum ==
    /\ enum_pc = "called"
    /\ enum_args \in [ rpc : EnumModelRPCs, device_mesh : EnumMeshes,
                       n_ppo_minibatches : {1, 2} ]
    /\ feasible = <<>>
    /\ GroupIdle /\ SearchIdle /\ GraphIdle /\ P2PIdle

\* the call runs the body of src/reallm/profiler/enumerate.py
EnumReturn ==
    /\ enum_pc = "called"
    /\ feasible' = enumerate_rpc_executions(enum_args.rpc, enum_args.device_mesh,
                                            enum_args.n_ppo_minibatches)
    /\ enum_pc' = "returned"
    /\ UNCHANGED <<enum_args, grpVars, searchVars, graphVars, p2pVars>>

\* the call runs the body of src/profiler/enumerate.py
EnumReturnExp ==
    /\ enum_pc = "called"
    /\ feasible' = enumerate_rpc_executions_exp(enum_args.rpc, enum_args.device_mesh)
    /\ enum_pc' = "returned_exp"
    /\ UNCHANGED <<enum_args, grpVars, searchVars, graphVars, p2pVars>>

NextEnum == EnumReturn \/ EnumReturnExp

SpecEnum == InitEnum /\ [][NextEnum]_vars

(***************************************************************************)
(* Specification SpecSearch: one run of enumerate_model_device_mappings    *)
(***************************************************************************)
SearchMesh == make_device_mesh(2, 1)

SearchConfigs ==
    { [param_mem |-> 40, act_mem |-> 0, flops |-> 8],
      [param_mem |-> 40, act_mem |-> 12, flops |-> 8],
      [param_mem |-> 100, act_mem |-> 12, flops |-> 20],
      [param_mem |-> 200, act_mem |-> 0, flops |-> 40] }

\* the RPCs of a PPO experiment, of which an experiment runs the first few
ExperimentRPCs ==
    << [name |-> "actor_gen", model_name |-> "actor", interface_type |-> "GENERATE"],
       [name |-> "critic_inf", model_name |-> "critic", interface_type |-> "INFERENCE"],
       [name |-> "actor_train", model_name |-> "actor", interface_type |-> "TRAIN_STEP"],
       [name |-> "critic_train", model_name |-> "critic", interface_type |-> "TRAIN_STEP"],
       [name |-> "ref_inf", model_name |-> "ref", interface_type |-> "INFERENCE"],
       [name |-> "rew_inf", model_name |-> "reward", interface_type |-> "INFERENCE"] >>

ProfileExperiment(configs) ==
    [device_mesh |-> SearchMesh,
     model_rpcs |-> [k \in 1..Len(configs) |->
                        [name |-> ExperimentRPCs[k].name,
                         model_name |-> ExperimentRPCs[k].model_name,
                         interface_type |-> ExperimentRPCs[k].interface_type,
                         min_n_seqs |-> 8, max_n_tokens |-> 4096,
                         model_config |-> configs[k]]]]

Experiments ==
    { ProfileExperiment(configs) :
        configs \in UNION { [1..n -> SearchConfigs] : n \in 1..MaxRPCs } }

InitSearch ==
    /\ pc = "start"
    /\ exp \in Experiments
    /\ rpc_exe_table = <<>>
    /\ sorted_model_rpc_names = <<>> /\ index = <<>>
    /\ count = 0 /\ inner_count = 0 /\ valid_count = 0
    /\ grouped_rpc_exe = GroupedRPCExecutions
    /\ i = 0 /\ bi = 0 /\ break_flag = FALSE /\ current_mem = 0
    /\ GroupIdle /\ EnumIdle /\ GraphIdle /\ P2PIdle

\* lines 79-81: the sorted candidate list of the k-th RPC of the experiment
sorted_feasible(e, k) ==
    sort_by_time_cost(enumerate_rpc_executions_exp(e.model_rpcs[k], e.device_mesh))

\* line 97: the RPCs whose feasible[0] raises
failing_rpcs(e) ==
    { k \in 1..Len(e.model_rpcs) : first_candidate_missing(sorted_feasible(e, k)) }

\* line 95: the tables stored when the loop ends or raises
stored_tables(e) ==
    LET failing == failing_rpcs(e)
        stored == IF failing = {} THEN 1..Len(e.model_rpcs)
                  ELSE 1..(CHOOSE k \in failing : \A m \in failing : k <= m)
    IN [name \in { e.model_rpcs[k].name : k \in stored } |->
           sorted_feasible(e, CHOOSE k \in stored : e.model_rpcs[k].name = name)]

\* lines 96-101: the RPC names by descending sum(top-10 time costs) / 10 + i
priority_order(e) ==
    LET avg_time_cost == [k \in 1..Len(e.model_rpcs) |->
                             avg_time_cost_entry(sorted_feasible(e, k), k - 1,
                                                 e.model_rpcs[k].name)]
    IN [k \in 1..Len(e.model_rpcs) |-> sort_by_key_reverse(avg_time_cost)[k][2]]

\* lines 71-106: the candidate tables, the priority order, the counters
SearchSetup ==
    /\ pc = "start"
    /\ rpc_exe_table' = stored_tables(exp)
    /\ pc' = IF failing_rpcs(exp) # {} THEN "fatal" ELSE "outer"
    /\ sorted_model_rpc_names' =
          IF failing_rpcs(exp) # {} THEN sorted_model_rpc_names ELSE priority_order(exp)
    /\ index' = IF failing_rpcs(exp) # {} THEN index
                ELSE [k \in 1..Len(exp.model_rpcs) |-> 0]
    /\ UNCHANGED <<exp, count, inner_count, valid_count,
                   grouped_rpc_exe, i, bi, break_flag, current_mem>>
    /\ UNCHANGED <<grpVars, enumVars, graphVars, p2pVars>>

\* the groups of the previous assignment are kept
SearchKeepsGroups ==
    /\ pc = "outer"
    /\ break_flag' = FALSE
    /\ bi' = Len(exp.model_rpcs) - 1
    /\ i' = 0
    /\ pc' = "inner"
    /\ UNCHANGED <<exp, rpc_exe_table, sorted_model_rpc_names, index,
                   count, inner_count, valid_count, current_mem, grouped_rpc_exe>>
    /\ UNCHANGED <<grpVars, enumVars, graphVars, p2pVars>>

\* lines 111-115: a new assignment is evaluated from a fresh GroupedRPCExecutions
SearchNewAssignment ==
    /\ pc = "outer"
    /\ grouped_rpc_exe' = GroupedRPCExecutions
    /\ break_flag' = FALSE
    /\ bi' = Len(exp.model_rpcs) - 1
    /\ i' = 0
    /\ pc' = "inner"
    /\ UNCHANGED <<exp, rpc_exe_table, sorted_model_rpc_names, index,
                   count, inner_count, valid_count, current_mem>>
    /\ UNCHANGED <<grpVars, enumVars, graphVars, p2pVars>>

\* lines 115-132: one pass of the for loop
SearchInnerStep ==
    /\ pc = "inner"
    /\ LET candidates == rpc_exe_table[At(sorted_model_rpc_names, i)]
       IN IF ~(At(index, i) < Len(candidates))
          THEN \* IndexError
               /\ pc' = "fatal"
               /\ UNCHANGED <<grouped_rpc_exe, inner_count, current_mem, break_flag, bi, i>>
          ELSE LET rpc_exe == At(candidates, At(index, i))
                   after == add(grouped_rpc_exe, rpc_exe)
               IN /\ grouped_rpc_exe' = after
                  /\ inner_count' = inner_count + 1
                  /\ current_mem' = total_mem_cost(after)
                  /\ IF over_offload_space(total_mem_cost(after))
                     THEN /\ break_flag' = TRUE
                          /\ bi' = i
                          /\ pc' = "advance"
                          /\ UNCHANGED i
                     ELSE /\ UNCHANGED <<break_flag, bi>>
                          /\ IF i + 1 < Len(exp.model_rpcs)
                             THEN i' = i + 1 /\ pc' = "inner"
                             ELSE UNCHANGED i /\ pc' = "advance"
    /\ UNCHANGED <<exp, rpc_exe_table, sorted_model_rpc_names, index, count, valid_count>>
    /\ UNCHANGED <<grpVars, enumVars, graphVars, p2pVars>>

\* lines 134-158: count the assignment, advance the cursors, leave or go on
SearchAdvance ==
    /\ pc = "advance"
    /\ valid_count' = IF counts_as_valid(break_flag) THEN valid_count + 1 ELSE valid_count
    /\ LET b == carry_to(index, rpc_exe_table, sorted_model_rpc_names, bi)
           outer_loop_break_flag == b < 0
           incremented == increment_cursor(index, b)
       IN /\ bi' = b
          /\ index' = reset_after(incremented, b)
          /\ count' = count + 1
          /\ pc' = IF outer_loop_break_flag \/ budget_reached(inner_count)
                   THEN "done" ELSE "outer"
    /\ UNCHANGED <<exp, rpc_exe_table, sorted_model_rpc_names,
                   inner_count, grouped_rpc_exe, i, break_flag, current_mem>>
    /\ UNCHANGED <<grpVars, enumVars, graphVars, p2pVars>>

NextSearch ==
    SearchSetup \/ SearchNewAssignment \/ SearchInnerStep \/ SearchAdvance

SpecSearch == InitSearch /\ [][NextSearch]_vars

\* the loop is sequential code: once entered, it keeps running
SearchLoop == SearchNewAssignment \/ SearchInnerStep \/ SearchAdvance

SpecSearchFair == SpecSearch /\ WF_vars(SearchLoop)

(***************************************************************************)
(* build_graph (src/reallm/profiler/enumerate.py; the older                *)
(* src/profiler/enumerate.py has the same loop)                            *)
(***************************************************************************)
\* RPCInstance.__post_init__: name = f"{self.rpc.rpc_name}:{self.epoch_id}"
instance_name_without_epoch(rpc_name, epoch) == rpc_name

instance_name(rpc_name, epoch) == rpc_name \o ":" \o ToString(epoch)

RPCInstance(rpc, epoch, parents, children) ==
    [rpc |-> rpc, epoch_id |-> epoch, parents |-> parents, children |-> children,
     name |-> instance_name(rpc.rpc_name, epoch)]

\* the names of the RPCs of S in the order of the list rs
names_in_order(rs, S) ==
    LET in_S(r) == r.name \in S
        kept == SelectSeq(rs, in_S)
    IN [j \in 1..Len(kept) |-> kept[j].name]

\* the single-epoch graph of api.core.dfg.build_graph: a source has no parent,
\* a sink has no child
dfg_build_graph(rs) ==
    [j \in 1..Len(rs) |->
        [name |-> rs[j].name, model_name |-> rs[j].model_name,
         interface_type |-> rs[j].interface_type,
         parents |-> rs[j].parents, children |-> rs[j].children,
         is_src |-> rs[j].parents = <<>>, is_dst |-> rs[j].children = <<>>]]

\* rpc_names_mapping = {rpc.name: rpc for rpc in rpcs}
rpc_names_mapping(rs) ==
    [name \in { rs[j].name : j \in 1..Len(rs) } |->
        rs[CHOOSE j \in 1..Len(rs) :
              /\ rs[j].name = name
              /\ \A m \in 1..Len(rs) : rs[m].name = name => m <= j]]

\* if rpc.is_src and epoch_id >= epoch_dependency_interval
gains_parents_always(rpc, epoch, interval) == rpc.is_src

gains_parents_never(rpc, epoch, interval) == FALSE

gains_parents(rpc, epoch, interval) == rpc.is_src /\ epoch >= interval

\* if other.is_src and epoch_id + epoch_dependency_interval < num_epoch
gains_child_always(other, epoch, interval, n_epoch) == other.is_src

gains_child(other, epoch, interval, n_epoch) ==
    other.is_src /\ epoch + interval < n_epoch

\* line 79: epoch_id - epoch_dependency_interval
parent_epoch_ahead(epoch, interval) == epoch + interval

parent_epoch(epoch, interval) == epoch - interval

\* lines 75-79: the sinks of the epoch that lies one interval back
inter_epoch_parents(rpc, rs, epoch, interval) ==
    IF gains_parents(rpc, epoch, interval)
    THEN LET is_dst(other) == other.is_dst
             sinks == SelectSeq(rs, is_dst)
         IN [j \in 1..Len(sinks) |->
                RPCInstance(RPC(sinks[j]), parent_epoch(epoch, interval), <<>>, <<>>)]
    ELSE <<>>

\* line 84: epoch_id + epoch_dependency_interval
child_epoch_behind(epoch, interval) == epoch - interval

child_epoch(epoch, interval) == epoch + interval

\* lines 80-84: the sources of the epoch that lies one interval ahead
inter_epoch_children(rpc, rs, epoch, interval, n_epoch) ==
    IF rpc.is_dst
    THEN LET gains(other) == gains_child(other, epoch, interval, n_epoch)
             sources == SelectSeq(rs, gains)
         IN [j \in 1..Len(sources) |->
                RPCInstance(RPC(sources[j]), child_epoch(epoch, interval), <<>>, <<>>)]
    ELSE <<>>

\* lines 85-90: the parents, or the children, of the rpc inside its epoch
intra_epoch_entries(rs, names, epoch) ==
    [j \in 1..Len(names) |->
        RPCInstance(RPC(rpc_names_mapping(rs)[names[j]]), epoch, <<>>, <<>>)]

\* lines 73-91: the instance of one rpc in one epoch
make_rpc_instance(rpc, rs, epoch, interval, n_epoch) ==
    RPCInstance(RPC(rpc), epoch,
                inter_epoch_parents(rpc, rs, epoch, interval)
                    \o intra_epoch_entries(rs, rpc.parents, epoch),
                inter_epoch_children(rpc, rs, epoch, interval, n_epoch)
                    \o intra_epoch_entries(rs, rpc.children, epoch))

(***************************************************************************)
(* Specification SpecGraph: one call of build_graph                        *)
(***************************************************************************)
GraphRPCNames == << "rpc", "inf", "train", "eval" >>

\* the edge set has no cycle: its nodes can be removed one by one, each time
\* one that no remaining node points to
RECURSIVE IsAcyclic(_, _)
IsAcyclic(nodes, edges) ==
    IF nodes = {} THEN TRUE
    ELSE LET free == { x \in nodes : ~\E y \in nodes : <<y, x>> \in edges }
         IN IF free = {} THEN FALSE
            ELSE IsAcyclic(nodes \ {CHOOSE x \in free : TRUE}, edges)

\* the directed acyclic graphs over the first n names
SingleEpochEdges(n) ==
    { E \in SUBSET { <<GraphRPCNames[a], GraphRPCNames[b]>> :
                        a \in 1..n, b \in (1..n) } :
        IsAcyclic({ GraphRPCNames[a] : a \in 1..n }, E) }

\* the ModelRPC list of n RPCs whose data dependencies are the edges E
ModelRPCs(n, E) ==
    LET listed == [j \in 1..n |-> [name |-> GraphRPCNames[j]]]
    IN [j \in 1..n |->
           [name |-> GraphRPCNames[j], model_name |-> "actor",
            interface_type |-> "INFERENCE",
            parents |-> names_in_order(listed,
                            { x \in { GraphRPCNames[a] : a \in 1..n } :
                                <<x, GraphRPCNames[j]>> \in E }),
            children |-> names_in_order(listed,
                            { x \in { GraphRPCNames[a] : a \in 1..n } :
                                <<GraphRPCNames[j], x>> \in E })]]

GraphInputs ==
    UNION { { ModelRPCs(n, E) : E \in SingleEpochEdges(n) } : n \in 1..MaxGraphRPCs }

InitGraph ==
    /\ graph_pc = "called"
    /\ rpcs \in GraphInputs
    /\ num_epoch \in 0..MaxEpochs
    /\ epoch_dependency_interval \in 0..MaxEpochs
    /\ epoch_id = 0 /\ rpc_i = 0 /\ rpc_instances = <<>>
    /\ GroupIdle /\ EnumIdle /\ SearchIdle /\ P2PIdle

\* lines 66-68: the single-epoch graph and the empty result list
GraphSetup ==
    /\ graph_pc = "called"
    /\ rpcs' = dfg_build_graph(rpcs)
    /\ rpc_instances' = <<>>
    /\ epoch_id' = 0 /\ rpc_i' = 0
    /\ graph_pc' = "loop"
    /\ UNCHANGED <<num_epoch, epoch_dependency_interval>>
    /\ UNCHANGED <<grpVars, enumVars, searchVars, p2pVars>>

\* lines 71-92: one pass of the inner loop, for the rpc at position rpc_i
GraphVisit ==
    /\ graph_pc = "loop"
    /\ epoch_id < num_epoch
    /\ rpc_instances' =
          Append(rpc_instances,
                 make_rpc_instance(At(rpcs, rpc_i), rpcs, epoch_id,
                                   epoch_dependency_interval, num_epoch))
    /\ IF rpc_i + 1 < Len(rpcs)
       THEN rpc_i' = rpc_i + 1 /\ UNCHANGED epoch_id
       ELSE rpc_i' = 0 /\ epoch_id' = epoch_id + 1
    /\ UNCHANGED <<graph_pc, rpcs, num_epoch, epoch_dependency_interval>>
    /\ UNCHANGED <<grpVars, enumVars, searchVars, p2pVars>>

\* line 96: return rpc_instances
GraphReturn ==
    /\ graph_pc = "loop"
    /\ ~(epoch_id < num_epoch)
    /\ graph_pc' = "returned"
    /\ UNCHANGED <<rpcs, num_epoch, epoch_dependency_interval,
                   epoch_id, rpc_i, rpc_instances>>
    /\ UNCHANGED <<grpVars, enumVars, searchVars, p2pVars>>

NextGraph == GraphSetup \/ GraphVisit \/ GraphReturn

SpecGraph == InitGraph /\ [][NextGraph]_vars

(***************************************************************************)
(* Helpers of the properties                                               *)
(***************************************************************************)
\* the sum of f[x] over x in S
RECURSIVE SetSum(_, _)
SetSum(S, f) ==
    IF S = {} THEN 0
    ELSE LET x == CHOOSE y \in S : TRUE IN f[x] + SetSum(S \ {x}, f)

SetMax(S) == CHOOSE x \in S : \A y \in S : y <= x

\* the executions of group g that belong to model m
MembersOf(self, g, m) ==
    { k \in 1..Len(self.rpc_exe_groups[g]) : self.rpc_exe_groups[g][k].rpc.model_name = m }

ModelsOf(self, g) ==
    { self.rpc_exe_groups[g][k].rpc.model_name : k \in 1..Len(self.rpc_exe_groups[g]) }

MaxStaticSeen(self, g, m) ==
    SetMax({ self.rpc_exe_groups[g][k].static_mem : k \in MembersOf(self, g, m) })

MaxActiveSeen(self, g, m) ==
    SetMax({ self.rpc_exe_groups[g][k].mem - self.rpc_exe_groups[g][k].static_mem :
                k \in MembersOf(self, g, m) })

SameMeshModelCosts(a, b) ==
    /\ a.device_mesh = b.device_mesh
    /\ a.rpc.model_name = b.rpc.model_name
    /\ a.mem = b.mem /\ a.static_mem = b.static_mem /\ a.time_cost = b.time_cost

(***************************************************************************)
(* Properties of GroupedRPCExecutions, under SpecGroup                     *)
(***************************************************************************)
\* C1: after add() of two executions with the same device mesh, model name and
\* costs to an empty GroupedRPCExecutions there is one group with one model
\* entry and total_mem_cost() is the mem of one such execution.
C1_IdenticalAddSingleCost ==
    (Len(added) = 2 /\ SameMeshModelCosts(added[1], added[2])) =>
        /\ Len(grouped.rpc_exe_groups) = 1
        /\ Len(grouped.rpc_exe_group_models[1]) = 1
        /\ total_mem_cost(grouped) = added[1].mem

\* C2: every group's cost is the sum over its model names of the largest
\* static_mem seen for the model plus the largest, over its model names, of the
\* largest mem - static_mem seen for the model; total_mem_cost() is the sum of
\* the group costs.
C2_GroupCostFormula ==
    /\ \A g \in 1..Len(grouped.rpc_exe_groups) :
          grouped.mem_costs[g] =
              SetSum(ModelsOf(grouped, g),
                     [m \in ModelsOf(grouped, g) |-> MaxStaticSeen(grouped, g, m)])
              + SetMax({ MaxActiveSeen(grouped, g, m) : m \in ModelsOf(grouped, g) })
    /\ total_mem_cost(grouped) =
          SetSum(1..Len(grouped.mem_costs), grouped.mem_costs)

\* C3: after add() of two executions on disjoint device meshes to an empty
\* GroupedRPCExecutions there are two groups, each costing the mem of its one
\* execution, and total_mem_cost() is the sum of the two.
C3_DisjointMeshesTwoGroups ==
    (Len(added) = 2 /\ added[1].device_mesh.devices \cap added[2].device_mesh.devices = {}) =>
        /\ Len(grouped.rpc_exe_groups) = 2
        /\ grouped.rpc_exe_groups[1] = <<added[1]>>
        /\ grouped.rpc_exe_groups[2] = <<added[2]>>
        /\ grouped.mem_costs[1] = added[1].mem
        /\ grouped.mem_costs[2] = added[2].mem
        /\ total_mem_cost(grouped) = added[1].mem + added[2].mem

C3_Witness ==
    /\ Len(added) = 2
    /\ added[1].device_mesh.devices \cap added[2].device_mesh.devices = {}
    /\ added[1].static_mem < added[1].mem
    /\ Len(grouped.rpc_exe_groups) = 2

(***************************************************************************)
(* Properties of enumerate_rpc_executions, under SpecEnum                  *)
(***************************************************************************)
\* a strategy the legality filters let through, whatever its memory
Legal(pair) ==
    /\ ~batch_too_small(enum_args.rpc, pair.p, enum_args.n_ppo_minibatches)
    /\ ~fanout_too_wide(enum_args.rpc, pair.p)
    /\ ~pipeline_too_deep(enum_args.device_mesh, pair.p)

EnumPairs == { strategy_pairs(enum_args.device_mesh)[k] :
                 k \in 1..Len(strategy_pairs(enum_args.device_mesh)) }

Emitted == { feasible[k] : k \in 1..Len(feasible) }

\* C4: every execution enumerate_rpc_executions returns (either version) has
\* mem < GPU_MEM_CAP.
C4_ReturnedBelowCap ==
    enum_pc \in {"returned", "returned_exp"} =>
        \A k \in 1..Len(feasible) : feasible[k].mem < GPU_MEM_CAP

C4_Witness ==
    /\ enum_pc = "returned"
    /\ feasible # <<>>
    /\ \E pair \in EnumPairs :
          /\ Legal(pair)
          /\ estimate_memory(enum_args.rpc.model_config, pair.p).mem_cost * MEM_INDEX
                 >= GPU_MEM_CAP

\* C5: a TRAIN_STEP candidate is returned only if
\* min_n_seqs >= 2 * num_dp * num_pp * n_ppo_minibatches, a GENERATE/INFERENCE
\* candidate only if min_n_seqs >= num_dp * num_pp; so TRAIN_STEP with
\* min_n_seqs = 16 and 2 minibatches returns no num_dp * num_pp > 4 and
\* GENERATE with min_n_seqs = 8 returns no num_dp * num_pp > 8.
C5_MinBatchSizeRespected ==
    enum_pc = "returned" =>
        \A k \in 1..Len(feasible) :
            LET p == feasible[k].parallel_strategy
                rpc == enum_args.rpc
            IN /\ rpc.interface_type = "TRAIN_STEP" =>
                     rpc.min_n_seqs >= 2 * p.num_dp * p.num_pp * enum_args.n_ppo_minibatches
               /\ rpc.interface_type \in {"GENERATE", "INFERENCE"} =>
                     rpc.min_n_seqs >= p.num_dp * p.num_pp
               /\ (rpc.interface_type = "TRAIN_STEP" /\ rpc.min_n_seqs = 16
                      /\ enum_args.n_ppo_minibatches = 2) => p.num_dp * p.num_pp <= 4
               /\ (rpc.interface_type = "GENERATE" /\ rpc.min_n_seqs = 8) =>
                     p.num_dp * p.num_pp <= 8

C5_Witness ==
    /\ enum_pc = "returned"
    /\ enum_args.rpc.interface_type = "TRAIN_STEP"
    /\ enum_args.rpc.min_n_seqs = 16
    /\ enum_args.n_ppo_minibatches = 2
    /\ \E e \in Emitted : e.parallel_strategy.num_dp * e.parallel_strategy.num_pp = 4
    /\ \E pair \in EnumPairs :
          /\ pair.p.num_dp * pair.p.num_pp > 4
          /\ fits_memory(make_execution(enum_args.rpc, pair).mem)

\* C6: no TRAIN_STEP candidate is returned with num_mp * num_dp > 8, no
\* candidate at all with num_pp > max(n_nodes, 8); a GENERATE/INFERENCE
\* strategy with num_mp * num_dp > 8 that passes the other filters is returned.
C6_FanoutAndDepthLimits ==
    enum_pc = "returned" =>
        /\ \A e \in Emitted :
              /\ e.rpc.interface_type = "TRAIN_STEP" =>
                    e.parallel_strategy.num_mp * e.parallel_strategy.num_dp <= 8
              /\ e.parallel_strategy.num_pp <= Max(enum_args.device_mesh.n_nodes, 8)
        /\ enum_args.rpc.interface_type \in {"GENERATE", "INFERENCE"} =>
              \A pair \in EnumPairs :
                 ( /\ pair.p.num_mp * pair.p.num_dp > 8
                   /\ enum_args.rpc.min_n_seqs >= pair.p.num_dp * pair.p.num_pp
                   /\ pair.p.num_pp <= Max(enum_args.device_mesh.n_nodes, 8)
                   /\ make_execution(enum_args.rpc, pair).mem < GPU_MEM_CAP )
                 => \E e \in Emitted :
                       /\ e.device_mesh = pair.sub_device_mesh
                       /\ e.parallel_strategy = pair.p

C6_Witness ==
    /\ enum_pc = "returned"
    /\ enum_args.rpc.interface_type = "GENERATE"
    /\ \E e \in Emitted : e.parallel_strategy.num_mp * e.parallel_strategy.num_dp > 8
    /\ \E pair \in EnumPairs :
          /\ pair.p.num_pp > Max(enum_args.device_mesh.n_nodes, 8)
          /\ enum_args.rpc.min_n_seqs >= pair.p.num_dp * pair.p.num_pp
          /\ make_execution(enum_args.rpc, pair).mem < GPU_MEM_CAP

(***************************************************************************)
(* Properties of enumerate_model_device_mappings, under SpecSearch         *)
(***************************************************************************)
\* the search loop has been entered
SearchEntered == pc \in {"outer", "inner", "advance", "done"}

\* every RPC of the experiment got a table entry with at least one candidate
AllHaveCandidates ==
    /\ DOMAIN rpc_exe_table = { exp.model_rpcs[k].name : k \in 1..Len(exp.model_rpcs) }
    /\ \A name \in DOMAIN rpc_exe_table : rpc_exe_table[name] # <<>>

\* some RPC got an empty candidate list
SomeHasNoCandidate == \E name \in DOMAIN rpc_exe_table : rpc_exe_table[name] = <<>>

\* the candidate list of the RPC at 0-based priority position k
CandidatesAt(k) == rpc_exe_table[At(sorted_model_rpc_names, k)]

AllCandidates ==
    UNION { { CandidatesAt(k - 1)[c] : c \in 1..Len(CandidatesAt(k - 1)) } :
              k \in 1..Len(sorted_model_rpc_names) }

\* the cross product of the candidate lists: one 0-based cursor per RPC
IndexVectors ==
    LET n == Len(sorted_model_rpc_names)
        longest == SetMax({ Len(CandidatesAt(k - 1)) : k \in 1..n })
    IN { v \in [1..n -> 0..(longest - 1)] :
           \A k \in 1..n : v[k] < Len(CandidatesAt(k - 1)) }

\* a fresh GroupedRPCExecutions after the first k selected candidates of v
RECURSIVE GroupedPrefix(_, _)
GroupedPrefix(v, k) ==
    IF k = 0 THEN GroupedRPCExecutions
    ELSE add(GroupedPrefix(v, k - 1), At(CandidatesAt(k - 1), v[k]))

PrefixOverCap(v, k) == total_mem_cost(GroupedPrefix(v, k)) * 10 > GPU_MEM_CAP * 12

ValidVectors == { v \in IndexVectors : ~PrefixOverCap(v, Len(sorted_model_rpc_names)) }

NoFeasibleCombination ==
    \A v \in IndexVectors : \E k \in 1..Len(sorted_model_rpc_names) : PrefixOverCap(v, k)

\* C7: with at least one RPC and a non-empty candidate list for each (the
\* search loop is entered), the search leaves its outer loop, and it leaves it
\* only when the carry went past the first RPC or the iteration budget was
\* reached.
C7_SearchTerminates ==
    /\ (pc = "outer" /\ count = 0) ~> (pc = "done")
    /\ [](pc = "done" => (bi < 0 \/ inner_count >= BUDGET))

C7_Witness ==
    /\ pc = "done"
    /\ bi < 0
    /\ Len(exp.model_rpcs) = 3
    /\ count > 3

\* C8: when the search ends by rollover and every candidate has mem >= 0 and
\* static_mem <= mem, valid_count is the number of index vectors of the cross
\* product whose total, all candidates added in priority order to a fresh
\* GroupedRPCExecutions, is at most 1.2 * GPU_MEM_CAP.
C8_ValidCountIsExact ==
    ( /\ pc = "done"
      /\ inner_count < BUDGET
      /\ \A e \in AllCandidates : e.mem >= 0 /\ e.static_mem <= e.mem )
    => valid_count = Cardinality(ValidVectors)

C8_Witness ==
    /\ pc = "done"
    /\ inner_count < BUDGET
    /\ valid_count > 1
    /\ valid_count = Cardinality(ValidVectors)
    /\ \E v \in IndexVectors : PrefixOverCap(v, Len(sorted_model_rpc_names) - 1)
    /\ count < Cardinality(IndexVectors)

C10_EmptyCandidateListIsFatal ==
    (pc # "start" /\ SomeHasNoCandidate) =>
        /\ pc = "fatal"
        /\ inner_count = 0 /\ count = 0 /\ valid_count = 0
        /\ grouped_rpc_exe = GroupedRPCExecutions

C10_Witness ==
    /\ pc = "fatal"
    /\ Cardinality(DOMAIN rpc_exe_table) > 1
    /\ rpc_exe_table[exp.model_rpcs[1].name] # <<>>
    /\ SomeHasNoCandidate

(***************************************************************************)
(* Group membership, under SpecGroup                                       *)
(***************************************************************************)
\* the groups that hold the execution
GroupsHolding(self, rpc_exe) ==
    { g \in 1..Len(self.rpc_exe_groups) : InSeq(rpc_exe, self.rpc_exe_groups[g]) }

\* C17: after any sequence of add() calls every added execution is a member
\* of exactly one group (add appends it to the first overlapping group only).
C17_AddedToExactlyOneGroup ==
    \A k \in 1..Len(added) : Cardinality(GroupsHolding(grouped, added[k])) = 1

(***************************************************************************)
(* The cursor vector, under SpecSearch                                     *)
(***************************************************************************)
\* the positions p <= bi whose cursor can move on inside its candidate list
IncrementablePositions ==
    { p \in 0..bi :
        At(index, p) + 1 < Len(rpc_exe_table[At(sorted_model_rpc_names, p)]) }

\* C18: when an assignment has been evaluated, bi is the position where the
\* memory threshold was exceeded, or the last position; the step that follows
\* increments by one the cursor of the right-most position p <= bi that can be
\* incremented, sets every cursor right of p to 0 and keeps every cursor left
\* of p; if there is no such p the search ends.
C18_OdometerAdvance ==
    [][pc = "advance" =>
         /\ bi = IF break_flag THEN i ELSE Len(index) - 1
         /\ IF IncrementablePositions = {}
            THEN pc' = "done"
            ELSE LET p == SetMax(IncrementablePositions)
                 IN /\ Len(index') = Len(index)
                    /\ At(index', p) = At(index, p) + 1
                    /\ \A q \in 0..(Len(index) - 1) :
                          /\ q > p => At(index', q) = 0
                          /\ q < p => At(index', q) = At(index, q)
                    /\ (pc' = "outer" \/ inner_count >= BUDGET)]_vars

\* a feasible assignment was counted, the last cursor was at the end of a list
\* of several candidates, and the carry moved an earlier cursor
C18_Witness ==
    /\ pc = "outer" /\ count > 0 /\ ~break_flag
    /\ bi >= 0 /\ bi < Len(index) - 1
    /\ At(index, bi) > 0
    /\ Len(rpc_exe_table[At(sorted_model_rpc_names, Len(index) - 1)]) > 1
    /\ \A q \in (bi + 1)..(Len(index) - 1) : At(index, q) = 0

\* the number of candidates added before index vector v is given up: all of
\* them, or as many as it takes for the total to pass 1.2 * GPU_MEM_CAP
EvaluatedPrefix(v) ==
    LET over == { k \in 1..Len(v) : PrefixOverCap(v, k) }
    IN IF over = {} THEN Len(v) ELSE CHOOSE k \in over : \A m \in over : k <= m

\* C20: when an assignment has been evaluated, the groups, the memory total,
\* the verdict and the break position bi are those a fresh GroupedRPCExecutions
\* gives for the index vector and the candidate tables alone, whatever was
\* evaluated before.
C20_EvaluationFromFreshGroups ==
    pc = "advance" =>
        LET k == EvaluatedPrefix(index)
        IN /\ grouped_rpc_exe = GroupedPrefix(index, k)
           /\ current_mem = total_mem_cost(GroupedPrefix(index, k))
           /\ break_flag = PrefixOverCap(index, k)
           /\ bi = k - 1

\* an assignment evaluated after an earlier one that had filled the groups
C20_Witness ==
    /\ pc = "advance" /\ count > 1
    /\ Len(index) > 1
    /\ ~break_flag
    /\ Len(grouped_rpc_exe.rpc_exe_groups) > 0
    /\ current_mem > 0

(***************************************************************************)
(* The priority order, under SpecSearch                                    *)
(***************************************************************************)
\* the number of candidates the average of the top K is taken over
top_k_count(l) == IF Len(l) < TOP_K THEN Len(l) ELSE TOP_K

\* the average of the top-K time costs of a is strictly higher than that of b
HigherTopKAverage(a, b) ==
    top_k_time_cost_sum(rpc_exe_table[a]) * top_k_count(rpc_exe_table[b])
        > top_k_time_cost_sum(rpc_exe_table[b]) * top_k_count(rpc_exe_table[a])

\* C19: of any two RPCs, the one with the strictly higher average time cost
\* over its top-K (K = 10) candidates stands earlier in sorted_model_rpc_names,
\* whatever their positions in the input list and their numbers of candidates.
C19_HigherAverageFirst ==
    (SearchEntered /\ AllHaveCandidates) =>
        \A p, q \in 1..Len(sorted_model_rpc_names) :
            HigherTopKAverage(sorted_model_rpc_names[p], sorted_model_rpc_names[q])
                => p < q

(***************************************************************************)
(* Specification SpecBudget: a run long enough to use up the budget of     *)
(* 200000 inner-loop steps: four RPCs with sixteen candidates each. The    *)
(* loop runs LoopStride iterations per step.                               *)
(***************************************************************************)
BudgetMesh == make_device_mesh(4, 1)

BudgetConfigs ==
    << [param_mem |-> 8, act_mem |-> 0, flops |-> 8],
       [param_mem |-> 50, act_mem |-> 0, flops |-> 8],
       [param_mem |-> 8, act_mem |-> 4, flops |-> 16],
       [param_mem |-> 50, act_mem |-> 0, flops |-> 16] >>

BudgetExperiment ==
    [ProfileExperiment(BudgetConfigs) EXCEPT !.device_mesh = BudgetMesh]

InitBudget ==
    /\ pc = "start"
    /\ exp = BudgetExperiment
    /\ rpc_exe_table = <<>>
    /\ sorted_model_rpc_names = <<>> /\ index = <<>>
    /\ count = 0 /\ inner_count = 0 /\ valid_count = 0
    /\ grouped_rpc_exe = GroupedRPCExecutions
    /\ i = 0 /\ bi = 0 /\ break_flag = FALSE /\ current_mem = 0
    /\ GroupIdle /\ EnumIdle /\ GraphIdle /\ P2PIdle

\* lines 115-132: the for loop from position k on, the groups so far being g
RECURSIVE for_loop(_, _, _, _, _)
for_loop(table, names, idx, k, g) ==
    IF ~(At(idx, k) < Len(table[At(names, k)]))
    THEN \* IndexError
         [raised |-> TRUE, grouped_rpc_exe |-> g, i |-> k, bi |-> Len(names) - 1,
          break_flag |-> FALSE, current_mem |-> total_mem_cost(g), steps |-> k]
    ELSE LET after == add(g, At(table[At(names, k)], At(idx, k)))
             mem == total_mem_cost(after)
         IN IF over_offload_space(mem)
            THEN [raised |-> FALSE, grouped_rpc_exe |-> after, i |-> k, bi |-> k,
                  break_flag |-> TRUE, current_mem |-> mem, steps |-> k + 1]
            ELSE IF k + 1 < Len(names)
                 THEN for_loop(table, names, idx, k + 1, after)
                 ELSE [raised |-> FALSE, grouped_rpc_exe |-> after, i |-> k,
                       bi |-> Len(names) - 1, break_flag |-> FALSE,
                       current_mem |-> mem, steps |-> k + 1]

\* lines 110-158: one iteration of the while loop, from the locals st
while_iteration(table, names, st) ==
    LET ev == for_loop(table, names, st.index, 0, GroupedRPCExecutions)
        b == carry_to(st.index, table, names, ev.bi)
        incremented == increment_cursor(st.index, b)
        inner == st.inner_count + ev.steps
    IN IF ev.raised
       THEN [st EXCEPT !.pc = "fatal", !.inner_count = inner,
                       !.grouped_rpc_exe = ev.grouped_rpc_exe, !.i = ev.i,
                       !.bi = ev.bi, !.break_flag = ev.break_flag]
       ELSE [pc |-> IF b < 0 \/ budget_reached(inner) THEN "done" ELSE "outer",
             index |-> SubSeq(reset_after(incremented, b), 1, Len(st.index)),
             count |-> st.count + 1,
             inner_count |-> inner,
             valid_count |-> IF counts_as_valid(ev.break_flag)
                             THEN st.valid_count + 1 ELSE st.valid_count,
             grouped_rpc_exe |-> ev.grouped_rpc_exe,
             i |-> ev.i, bi |-> b, break_flag |-> ev.break_flag,
             current_mem |-> ev.current_mem]

\* the while loop, for at most n iterations
RECURSIVE run_loop(_, _, _, _)
run_loop(table, names, st, n) ==
    IF n = 0 \/ st.pc # "outer" THEN st
    ELSE run_loop(table, names, while_iteration(table, names, st), n - 1)

\* the locals of the loop
loop_locals ==
    [pc |-> pc, index |-> index, count |-> count, inner_count |-> inner_count,
     valid_count |-> valid_count, grouped_rpc_exe |-> grouped_rpc_exe,
     i |-> i, bi |-> bi, break_flag |-> break_flag, current_mem |-> current_mem]

\* lines 110-158: LoopStride iterations of the while loop (fewer if the loop
\* is left before), taken as one step
SearchIterations ==
    /\ pc = "outer"
    /\ \E st \in { run_loop(rpc_exe_table, sorted_model_rpc_names,
                              loop_locals, LoopStride) } :
          /\ pc' = st.pc /\ index' = st.index /\ count' = st.count
          /\ inner_count' = st.inner_count /\ valid_count' = st.valid_count
          /\ grouped_rpc_exe' = st.grouped_rpc_exe
          /\ i' = st.i /\ bi' = st.bi /\ break_flag' = st.break_flag
          /\ current_mem' = st.current_mem
    /\ UNCHANGED <<exp, rpc_exe_table, sorted_model_rpc_names>>
    /\ UNCHANGED <<grpVars, enumVars, graphVars, p2pVars>>

NextBudget == SearchSetup \/ SearchIterations

SpecBudget == InitBudget /\ [][NextBudget]_vars

\* one iteration of the while loop, as SpecBudget takes it, is what the steps
\* of SpecSearch make of one assignment: at the end of an evaluation, i + 1
\* inner steps after its start, the step that follows leaves the locals that
\* while_iteration gives for the start of the evaluation
WhileIterationAgreesWithSteps ==
    [][pc = "advance" =>
         LET st == while_iteration(rpc_exe_table, sorted_model_rpc_names,
                                   [loop_locals EXCEPT !.pc = "outer",
                                       !.inner_count = inner_count - (i + 1)])
         IN /\ pc' = st.pc /\ index' = st.index /\ count' = st.count
            /\ inner_count' = st.inner_count /\ valid_count' = st.valid_count
            /\ grouped_rpc_exe' = st.grouped_rpc_exe
            /\ i' = st.i /\ bi' = st.bi /\ break_flag' = st.break_flag
            /\ current_mem' = st.current_mem]_vars

\* v comes before w in the order the odometer visits the index vectors
LexLess(v, w) ==
    \E k \in 1..Len(v) : v[k] < w[k] /\ \A m \in 1..(k - 1) : v[m] = w[m]

\* C11: no assignment is started once inner_count has reached 200000 (the
\* count was below 200000 before the i + 1 steps of the last assignment); the
\* test comes after a complete evaluation, so on a budget exit
\* 200000 <= inner_count < 200000 + number of RPCs; the search has then ended
\* without an error, and valid_count is the number of valid assignments among
\* those visited so far.
C11_BudgetExit ==
    /\ pc = "outer" => inner_count < BUDGET
    /\ inner_count >= BUDGET => pc = "done"
    /\ (pc = "done" /\ bi >= 0) =>
          /\ inner_count >= BUDGET
          /\ inner_count - (i + 1) < BUDGET
          /\ inner_count < BUDGET + Len(index)
          /\ valid_count = Cardinality({ v \in ValidVectors : LexLess(v, index) })

\* the budget ended the search in the middle of the cross product, one step
\* after the count reached 200000
C11_Witness ==
    /\ pc = "done" /\ bi >= 0
    /\ inner_count > BUDGET
    /\ valid_count > 0 /\ valid_count < count
    /\ count < Cardinality(IndexVectors)

(***************************************************************************)
(* Properties of build_graph, under SpecGraph                              *)
(***************************************************************************)
GraphReturned == graph_pc = "returned"

\* the decimal numerals of the epochs
EpochNumerals == << "0", "1", "2", "3", "4", "5" >>

\* the (rpc name, epoch) pairs a list of RPCInstances names
EntriesOf(instances) ==
    { <<instances[j].rpc.rpc_name, instances[j].epoch_id>> : j \in 1..Len(instances) }

\* the rpc names of the entries of epoch e, in the order of the list
NamesAtEpoch(instances, e) ==
    LET at_e(inst) == inst.epoch_id = e
        kept == SelectSeq(instances, at_e)
    IN [j \in 1..Len(kept) |-> kept[j].rpc.rpc_name]

Sources == { rpcs[j].name : j \in { m \in 1..Len(rpcs) : rpcs[m].is_src } }

Sinks == { rpcs[j].name : j \in { m \in 1..Len(rpcs) : rpcs[m].is_dst } }

\* the RPC of the single-epoch graph an instance was made from
RPCOf(inst) == rpcs[CHOOSE j \in 1..Len(rpcs) : rpcs[j].name = inst.rpc.rpc_name]

\* C12: build_graph returns num_epoch * |rpcs| RPCInstances, the one at
\* position epoch_id * |rpcs| + j being that of the j-th rpc in epoch epoch_id
\* (one per pair, epoch-major), named "{rpc_name}:{epoch_id}"; the names are
\* pairwise distinct.
C12_OneInstancePerPair ==
    GraphReturned =>
        /\ Len(rpc_instances) = num_epoch * Len(rpcs)
        /\ \A e \in 0..(num_epoch - 1) : \A j \in 1..Len(rpcs) :
              LET inst == rpc_instances[e * Len(rpcs) + j]
              IN /\ inst.rpc.rpc_name = rpcs[j].name
                 /\ inst.epoch_id = e
                 /\ inst.name = rpcs[j].name \o ":" \o EpochNumerals[e + 1]
        /\ \A a, b \in 1..Len(rpc_instances) :
              a # b => rpc_instances[a].name # rpc_instances[b].name

C12_Witness ==
    /\ GraphReturned
    /\ num_epoch = 3 /\ Len(rpcs) = 3
    /\ Len(rpc_instances) = 9
    /\ rpc_instances[5].name = "inf:1"

\* the names of the single-epoch graph close the entries of the instance's own
\* epoch, and are all of them when the interval leads to another epoch
CopiedUnchanged(own, names, k) ==
    /\ Len(own) >= Len(names)
    /\ SubSeq(own, Len(own) - Len(names) + 1, Len(own)) = names
    /\ k >= 1 => own = names

\* C13: in the list returned, with k = epoch_dependency_interval: the instance
\* of a source at epoch e has a parent entry for every sink at epoch e - k when
\* e >= k, and no entry of that epoch otherwise; the instance of a sink at epoch
\* e has a child entry for every source at epoch e + k when e + k < num_epoch,
\* and no entry of that epoch otherwise; the parents and children an rpc has in
\* the single-epoch graph are the entries of the instance's own epoch.
C13_InterEpochEdges ==
    GraphReturned =>
        \A j \in 1..Len(rpc_instances) :
            LET inst == rpc_instances[j]
                e == inst.epoch_id
                k == epoch_dependency_interval
                rpc == RPCOf(inst)
            IN /\ rpc.is_src =>
                     IF e >= k
                     THEN \A s \in Sinks : <<s, e - k>> \in EntriesOf(inst.parents)
                     ELSE \A s \in Sinks : <<s, e - k>> \notin EntriesOf(inst.parents)
               /\ rpc.is_dst =>
                     IF e + k < num_epoch
                     THEN \A s \in Sources : <<s, e + k>> \in EntriesOf(inst.children)
                     ELSE \A s \in Sources : <<s, e + k>> \notin EntriesOf(inst.children)
               /\ CopiedUnchanged(NamesAtEpoch(inst.parents, e), rpc.parents, k)
               /\ CopiedUnchanged(NamesAtEpoch(inst.children, e), rpc.children, k)

\* two sinks and a source with a child, three epochs, an interval of two
C13_Witness ==
    /\ GraphReturned
    /\ num_epoch = 3 /\ epoch_dependency_interval = 2
    /\ Cardinality(Sinks) = 2 /\ Cardinality(Sources) = 2
    /\ \E j \in 1..Len(rpc_instances) :
          /\ rpc_instances[j].epoch_id = 2
          /\ Len(rpc_instances[j].parents) = 2
          /\ Len(rpc_instances[j].children) = 1
    /\ \E j \in 1..Len(rpc_instances) :
          /\ rpc_instances[j].epoch_id = 1
          /\ RPCOf(rpc_instances[j]).is_src /\ RPCOf(rpc_instances[j]).is_dst
          /\ rpc_instances[j].parents = <<>> /\ rpc_instances[j].children = <<>>

\* the names of the entries of a list of RPCInstances
EntryNames(instances) == [j \in 1..Len(instances) |-> instances[j].name]

\* num_epoch = 3, epoch_dependency_interval = 1, and the single RPC "rpc",
\* source and sink at once, without parents or children
SingleRPCThreeEpochs ==
    /\ num_epoch = 3 /\ epoch_dependency_interval = 1
    /\ Len(rpcs) = 1 /\ rpcs[1].name = "rpc"
    /\ rpcs[1].is_src /\ rpcs[1].is_dst
    /\ rpcs[1].parents = <<>> /\ rpcs[1].children = <<>>

\* C14: for num_epoch = 3, epoch_dependency_interval = 1 and a single RPC
\* that is both source and sink, build_graph returns the three instances
\* "rpc:0", "rpc:1", "rpc:2"; "rpc:1" has the parent "rpc:0" only and the
\* child "rpc:2" only; "rpc:0" has no parent and "rpc:2" no child.
C14_SingleRPCThreeEpochs ==
    (GraphReturned /\ SingleRPCThreeEpochs) =>
        /\ EntryNames(rpc_instances) = << "rpc:0", "rpc:1", "rpc:2" >>
        /\ EntryNames(rpc_instances[2].parents) = << "rpc:0" >>
        /\ EntryNames(rpc_instances[2].children) = << "rpc:2" >>
        /\ rpc_instances[1].parents = <<>>
        /\ rpc_instances[3].children = <<>>

C14_Witness ==
    /\ GraphReturned /\ SingleRPCThreeEpochs
    /\ Len(rpc_instances) = 3
    /\ Len(rpc_instances[2].parents) = 1

\* a node of the multi-epoch graph
GraphNode(inst) == [name |-> inst.name, rpc_name |-> inst.rpc.rpc_name, epoch |-> inst.epoch_id]

\* the edges of the multi-epoch graph: parent -> instance, instance -> child
MultiEpochEdges ==
    UNION { { <<GraphNode(rpc_instances[j].parents[m]), GraphNode(rpc_instances[j])>> :
                m \in 1..Len(rpc_instances[j].parents) }
            \cup
            { <<GraphNode(rpc_instances[j]), GraphNode(rpc_instances[j].children[m])>> :
                m \in 1..Len(rpc_instances[j].children) } :
            j \in 1..Len(rpc_instances) }

\* the edges of the single-epoch graph, by rpc name
SingleEpochGraphEdges ==
    UNION { { <<rpcs[j].parents[m], rpcs[j].name>> : m \in 1..Len(rpcs[j].parents) }
            \cup
            { <<rpcs[j].name, rpcs[j].children[m]>> : m \in 1..Len(rpcs[j].children) } :
            j \in 1..Len(rpcs) }

\* C15: for an acyclic single-epoch graph, num_epoch >= 1 and
\* epoch_dependency_interval >= 1, every edge of the multi-epoch graph either
\* follows a single-epoch edge inside one epoch or goes from an epoch to a
\* strictly higher one, and the graph over the instance names has no cycle.
C15_MultiEpochGraphAcyclic ==
    ( /\ GraphReturned /\ num_epoch >= 1 /\ epoch_dependency_interval >= 1
      /\ IsAcyclic({ rpcs[j].name : j \in 1..Len(rpcs) }, SingleEpochGraphEdges) )
    => /\ \A edge \in MultiEpochEdges :
             \/ /\ edge[1].epoch = edge[2].epoch
                /\ <<edge[1].rpc_name, edge[2].rpc_name>> \in SingleEpochGraphEdges
             \/ edge[1].epoch < edge[2].epoch
       /\ IsAcyclic({ edge[1].name : edge \in MultiEpochEdges }
                        \cup { edge[2].name : edge \in MultiEpochEdges }
                        \cup { rpc_instances[j].name : j \in 1..Len(rpc_instances) },
                    { <<edge[1].name, edge[2].name>> : edge \in MultiEpochEdges })

\* a graph with edges inside the epochs and edges between them
C15_Witness ==
    /\ GraphReturned /\ num_epoch = 3 /\ epoch_dependency_interval = 1
    /\ Len(rpcs) = 3
    /\ \E edge \in MultiEpochEdges : edge[1].epoch = edge[2].epoch
    /\ \E edge \in MultiEpochEdges : edge[1].epoch < edge[2].epoch

\* C16: with epoch_dependency_interval = k, the instance of a sink at epoch e
\* has a child entry for every source at each of the epochs e + k, e + 2k, ...
\* below num_epoch.
C16_EdgesToEveryLaterMultiple ==
    GraphReturned =>
        \A j \in 1..Len(rpc_instances) :
            LET inst == rpc_instances[j]
                k == epoch_dependency_interval
            IN RPCOf(inst).is_dst =>
                   \A m \in 1..num_epoch :
                       inst.epoch_id + m * k < num_epoch =>
                           \A s \in Sources :
                               <<s, inst.epoch_id + m * k>> \in EntriesOf(inst.children)

(***************************************************************************)
(* The lists of GroupedRPCExecutions, under SpecGroup                      *)
(***************************************************************************)
\* C21: in every state of a GroupedRPCExecutions no group lists a model name
\* twice; the model, static and active lists of a group have the same length;
\* the five lists have one entry per group.
C21_GroupListsWellFormed ==
    LET n == Len(grouped.rpc_exe_groups)
    IN /\ Len(grouped.rpc_exe_group_models) = n
       /\ Len(grouped.mem_static) = n
       /\ Len(grouped.mem_active) = n
       /\ Len(grouped.mem_costs) = n
       /\ \A g \in 1..n :
             LET models == grouped.rpc_exe_group_models[g]
             IN /\ \A a, b \in 1..Len(models) : a # b => models[a] # models[b]
                /\ Len(grouped.mem_static[g]) = Len(models)
                /\ Len(grouped.mem_active[g]) = Len(models)

\* a group joined twice by one model and once by another
C21_Witness ==
    /\ Len(added) = 3
    /\ Len(grouped.rpc_exe_groups) = 1
    /\ Len(grouped.rpc_exe_groups[1]) = 3
    /\ Len(grouped.rpc_exe_group_models[1]) = 2

\* the execution the last add() call was given
LastAdded == added[Len(added)]

\* C26: for executions with 0 <= static_mem <= mem, no add() call lowers
\* total_mem_cost(), whether the execution joins a group (under a new model
\* name or a listed one) or starts a group.
C26_TotalNeverDecreases ==
    [][(\A k \in 1..Len(added') :
            0 <= added'[k].static_mem /\ added'[k].static_mem <= added'[k].mem)
        => total_mem_cost(grouped') >= total_mem_cost(grouped)]_vars

\* a listed model name joined its group again and the total grew
C26_Witness ==
    /\ Len(added) = 3
    /\ Len(grouped.rpc_exe_groups) = 1
    /\ Len(grouped.rpc_exe_group_models[1]) = 1
    /\ added[1].mem = 40 /\ added[2].mem = 40 /\ added[3].mem = 60
    /\ total_mem_cost(grouped) > 60

\* some member of group g of self shares a device with the execution
GroupOverlaps(self, g, rpc_exe) ==
    \E k \in 1..Len(self.rpc_exe_groups[g]) :
        self.rpc_exe_groups[g][k].device_mesh.devices
            \cap rpc_exe.device_mesh.devices # {}

\* C27: add(e) removes, reorders and merges no group: every group stays at
\* its position with its members as a prefix, a group whose meshes do not
\* overlap e keeps its members, model names, static and active lists and cost;
\* when no group overlaps e there is one group more, holding e alone with cost
\* e.mem, and otherwise the number of groups is unchanged.
C27_AddFrame ==
    [][added' # added =>
         LET e == added'[Len(added')]
             n == Len(grouped.rpc_exe_groups)
             overlapping == { g \in 1..n : GroupOverlaps(grouped, g, e) }
         IN /\ Len(grouped'.rpc_exe_groups) >= n
            /\ \A g \in 1..n :
                  /\ SubSeq(grouped'.rpc_exe_groups[g], 1, Len(grouped.rpc_exe_groups[g]))
                        = grouped.rpc_exe_groups[g]
                  /\ Len(grouped'.rpc_exe_groups[g]) <= Len(grouped.rpc_exe_groups[g]) + 1
                  /\ g \notin overlapping =>
                        /\ grouped'.rpc_exe_groups[g] = grouped.rpc_exe_groups[g]
                        /\ grouped'.rpc_exe_group_models[g] = grouped.rpc_exe_group_models[g]
                        /\ grouped'.mem_static[g] = grouped.mem_static[g]
                        /\ grouped'.mem_active[g] = grouped.mem_active[g]
                        /\ grouped'.mem_costs[g] = grouped.mem_costs[g]
            /\ IF overlapping = {}
               THEN /\ Len(grouped'.rpc_exe_groups) = n + 1
                    /\ grouped'.rpc_exe_groups[n + 1] = <<e>>
                    /\ grouped'.mem_costs[n + 1] = e.mem
               ELSE Len(grouped'.rpc_exe_groups) = n]_vars

\* two groups, of which the last add() joined one and left the other alone
C27_Witness ==
    /\ Len(added) = 3
    /\ Len(grouped.rpc_exe_groups) = 2
    /\ Len(grouped.rpc_exe_groups[1]) = 1
    /\ Len(grouped.rpc_exe_groups[2]) = 2
    /\ ~GroupOverlaps(grouped, 1, LastAdded)

(***************************************************************************)
(* The candidate tables and the cursors, under SpecSearch                  *)
(***************************************************************************)
\* the members of a list, with their multiplicities
Occurrences(l, x) == Cardinality({ k \in 1..Len(l) : l[k] = x })

\* C22: from the moment it is stored, every candidate list of rpc_exe_table
\* is in ascending order of time_cost (and holds what enumerate_rpc_executions
\* returned for the RPC), so that position 0 holds a candidate of least
\* time_cost; no step of the search changes the table.
C22_TablesSortedAndFrozen ==
    /\ [](\A name \in DOMAIN rpc_exe_table :
             LET l == rpc_exe_table[name]
                 k == CHOOSE m \in 1..Len(exp.model_rpcs) : exp.model_rpcs[m].name = name
                 returned == enumerate_rpc_executions_exp(exp.model_rpcs[k], exp.device_mesh)
             IN /\ \A a, b \in 1..Len(l) : a < b => l[a].time_cost <= l[b].time_cost
                /\ \A a \in 1..Len(l) : At(l, 0).time_cost <= l[a].time_cost
                /\ Len(l) = Len(returned)
                /\ \A a \in 1..Len(l) : Occurrences(l, l[a]) = Occurrences(returned, l[a]))
    /\ [][pc # "start" => rpc_exe_table' = rpc_exe_table]_vars

\* the search is in its loop over tables whose lists were returned in another
\* order than that of time_cost
C22_Witness ==
    /\ pc = "advance" /\ count > 0
    /\ \E name \in DOMAIN rpc_exe_table :
          LET k == CHOOSE m \in 1..Len(exp.model_rpcs) : exp.model_rpcs[m].name = name
          IN /\ Len(rpc_exe_table[name]) > 2
             /\ rpc_exe_table[name]
                   # enumerate_rpc_executions_exp(exp.model_rpcs[k], exp.device_mesh)

\* C24: whenever the search reads rpc_exe_table[name][index[i]], every cursor
\* is within its candidate list, so that the read never raises; the advance
\* leaves every cursor in range, and after the final rollover all are 0.
C24_CursorsInRange ==
    /\ pc \in {"outer", "inner", "advance", "done"} =>
          /\ Len(index) = Len(sorted_model_rpc_names)
          /\ \A k \in 0..(Len(index) - 1) :
                0 <= At(index, k) /\ At(index, k) < Len(CandidatesAt(k))
    /\ (pc = "done" /\ bi < 0) => \A k \in 0..(Len(index) - 1) : At(index, k) = 0
    /\ pc = "fatal" => SomeHasNoCandidate

\* the final rollover, from cursors that all stood at the end of lists of
\* several candidates
C24_Witness ==
    /\ pc = "done" /\ bi < 0
    /\ Len(index) = 3
    /\ \A k \in 0..(Len(index) - 1) : Len(CandidatesAt(k)) > 1
    /\ count > Len(CandidatesAt(0))

\* the size of the cross product of the candidate lists from position k on
RECURSIVE CrossProductFrom(_)
CrossProductFrom(k) ==
    IF k >= Len(sorted_model_rpc_names) THEN 1
    ELSE Len(CandidatesAt(k)) * CrossProductFrom(k + 1)

\* C25: the cursor vector that follows an evaluated one is greater in
\* lexicographic order (position 0, the RPC of highest priority, being the
\* most significant), so that no vector is evaluated twice, and the number of
\* iterations of the outer loop is at most the size of the cross product.
C25_VectorsIncrease ==
    /\ [][(pc = "advance" /\ pc' = "outer") => LexLess(index, index')]_vars
    /\ [](pc \in {"outer", "done"} => count <= CrossProductFrom(0))
    /\ [](pc \in {"inner", "advance"} => count < CrossProductFrom(0))

\* a carry over two positions, in a run that skips part of the cross product
C25_Witness ==
    /\ pc = "done" /\ bi < 0
    /\ Len(index) = 3
    /\ count > 5 /\ count < CrossProductFrom(0)

(***************************************************************************)
(* The edges of the multi-epoch graph, under SpecGraph                     *)
(***************************************************************************)
\* the parents and children lists of the single-epoch graph agree, and its
\* sources and sinks are the RPCs without parents and without children
ConsistentSingleEpochGraph ==
    /\ \A a, b \in 1..Len(rpcs) :
          InSeq(rpcs[b].name, rpcs[a].children) <=> InSeq(rpcs[a].name, rpcs[b].parents)
    /\ \A a \in 1..Len(rpcs) :
          /\ rpcs[a].is_src <=> rpcs[a].parents = <<>>
          /\ rpcs[a].is_dst <=> rpcs[a].children = <<>>

\* the names a list of RPCInstances holds
InstanceNames(instances) == { instances[j].name : j \in 1..Len(instances) }

\* C28: for a consistent single-epoch graph, the list returned by build_graph
\* is edge-symmetric: an instance X names the instance Y among its children if
\* and only if Y names X among its parents, inside an epoch and between epochs.
C28_EdgeSymmetry ==
    (GraphReturned /\ ConsistentSingleEpochGraph) =>
        \A a, b \in 1..Len(rpc_instances) :
            LET X == rpc_instances[a]
                Y == rpc_instances[b]
            IN /\ Y.name \in InstanceNames(X.children) <=> X.name \in InstanceNames(Y.parents)
               /\ <<Y.rpc.rpc_name, Y.epoch_id>> \in EntriesOf(X.children)
                     <=> <<X.rpc.rpc_name, X.epoch_id>> \in EntriesOf(Y.parents)

\* edges inside an epoch and edges over an interval of two epochs
C28_Witness ==
    /\ GraphReturned /\ ConsistentSingleEpochGraph
    /\ num_epoch = 3 /\ epoch_dependency_interval = 2 /\ Len(rpcs) = 3
    /\ \E a, b \in 1..Len(rpc_instances) :
          /\ rpc_instances[a].epoch_id = 0 /\ rpc_instances[b].epoch_id = 2
          /\ rpc_instances[b].name \in InstanceNames(rpc_instances[a].children)
    /\ \E a, b \in 1..Len(rpc_instances) :
          /\ rpc_instances[a].epoch_id = rpc_instances[b].epoch_id
          /\ rpc_instances[b].name \in InstanceNames(rpc_instances[a].children)

C29_ZeroInterval ==
    /\ GraphReturned /\ num_epoch = 2 /\ epoch_dependency_interval = 0
    /\ \E j \in 1..Len(rpc_instances) :
          /\ rpc_instances[j].parents # <<>>
          /\ RPCOf(rpc_instances[j]).parents = <<>>

(***************************************************************************)
(* The metadata handshake of two adjacent pipeline stages (p2p.py)         *)
(***************************************************************************)
\* the table of the dtypes that have an id; the id is the 0-based position
ID_TO_DTYPE ==
    << "float32", "float64", "complex64", "complex128", "float16", "bfloat16",
       "uint8", "int8", "int16", "int32", "int64", "bool" >>

\* DTYPE_TO_ID = {dtype: id_ for id_, dtype in enumerate(ID_TO_DTYPE)}
DTYPE_TO_ID ==
    [dtype \in { ID_TO_DTYPE[k] : k \in 1..Len(ID_TO_DTYPE) } |->
        (CHOOSE k \in 1..Len(ID_TO_DTYPE) : ID_TO_DTYPE[k] = dtype) - 1]

\* an element of a tensor tuple: a torch.Tensor of some shape and dtype, or None
Tensor(shape, dtype) == [kind |-> "Tensor", shape |-> shape, dtype |-> dtype]

None == [kind |-> "None", shape |-> <<>>, dtype |-> "None"]

\* count_tensor = torch.tensor([len(tensor_tuple)], dtype=torch.long)
count_tensor(tuple) == << Len(tuple) >>

\* send_ndims_dtype = torch.tensor(data=[-1, -1], dtype=torch.long), for None
none_ndims_dtype == << -1, -1 >>

\* send_tensor_meta: the two tensors it sends, in the order of its send calls
tensor_meta_shape_first(tensor) ==
    << tensor.shape, << Len(tensor.shape), DTYPE_TO_ID[tensor.dtype] >> >>

tensor_meta(tensor) ==
    << << Len(tensor.shape), DTYPE_TO_ID[tensor.dtype] >>, tensor.shape >>

\* recv_ndims_dtype[-1] == -1
is_none_marker(ndims_dtype) == ndims_dtype[Len(ndims_dtype)] = -1

\* an entry of recv_shapes_and_dtypes: (None, None) or (shape, dtype)
shape_and_dtype(shape, dtype) == [shape_is_none |-> FALSE, shape |-> shape, dtype |-> dtype]

none_and_none == [shape_is_none |-> TRUE, shape |-> <<>>, dtype |-> "None"]

\* allocate_buffers: None for (None, None), torch.zeros(shape, dtype=dtype) else
allocate_buffers(shapes_and_dtypes) ==
    [k \in 1..Len(shapes_and_dtypes) |->
        IF shapes_and_dtypes[k].shape_is_none
        THEN None
        ELSE Tensor(shapes_and_dtypes[k].shape, shapes_and_dtypes[k].dtype)]

(***************************************************************************)
(* Specification SpecP2P: send_tensor_tuple_meta on one stage and          *)
(* recv_tensor_tuple_meta on the next, over a FIFO channel                 *)
(***************************************************************************)
TensorShapes == { <<>>, <<4>>, <<2, 3>> }

\* dtypes of the tensors handed to the sender; torch.qint8 is the dtype of a
\* quantized tensor
TensorDtypes == { "float16", "int64", "bool", "qint8" }

TupleElements == { None } \cup { Tensor(shape, dtype) : shape \in TensorShapes, dtype \in TensorDtypes }

TensorTuples == UNION { [1..n -> TupleElements] : n \in 0..MaxTupleLen }

InitP2P ==
    /\ tensor_tuple \in TensorTuples
    /\ send_pc = "called" /\ send_idx = 0 /\ sent = <<>>
    /\ channel = <<>>
    /\ recv_pc = "called" /\ num_tensors = 0 /\ recv_idx = 0 /\ recv_ndims_dtype = <<>>
    /\ recv_shapes_and_dtypes = <<>> /\ received = <<>> /\ buffers = <<>>
    /\ GroupIdle /\ EnumIdle /\ SearchIdle /\ GraphIdle

\* send(tensor, recv_stage): the tensor joins the messages in flight
send(tensor) ==
    /\ channel' = Append(channel, tensor)
    /\ sent' = Append(sent, tensor)

recvFrame == UNCHANGED <<recv_pc, num_tensors, recv_idx, recv_ndims_dtype,
                         recv_shapes_and_dtypes, received, buffers>>

sendFrame == UNCHANGED <<tensor_tuple, send_pc, send_idx, sent>>

\* lines 223-225: the number of elements of the tuple
SendCount ==
    /\ send_pc = "called"
    /\ send(count_tensor(tensor_tuple))
    /\ send_idx' = 0
    /\ send_pc' = "loop"
    /\ UNCHANGED tensor_tuple
    /\ recvFrame
    /\ UNCHANGED <<grpVars, enumVars, searchVars, graphVars>>

\* lines 227-228, 241-247: a tensor whose dtype has an id; the first send
SendNdimsDtype ==
    /\ send_pc = "loop" /\ send_idx < Len(tensor_tuple)
    /\ At(tensor_tuple, send_idx).kind = "Tensor"
    /\ At(tensor_tuple, send_idx).dtype \in DOMAIN DTYPE_TO_ID
    /\ send(tensor_meta(At(tensor_tuple, send_idx))[1])
    /\ send_pc' = "shape"
    /\ UNCHANGED <<tensor_tuple, send_idx>>
    /\ recvFrame
    /\ UNCHANGED <<grpVars, enumVars, searchVars, graphVars>>

\* line 243: DTYPE_TO_ID[tensor.dtype] raises KeyError for a dtype without id
SendKeyError ==
    /\ send_pc = "loop" /\ send_idx < Len(tensor_tuple)
    /\ At(tensor_tuple, send_idx).kind = "Tensor"
    /\ At(tensor_tuple, send_idx).dtype \notin DOMAIN DTYPE_TO_ID
    /\ send_pc' = "raised"
    /\ UNCHANGED <<tensor_tuple, send_idx, sent, channel>>
    /\ recvFrame
    /\ UNCHANGED <<grpVars, enumVars, searchVars, graphVars>>

\* line 248: the second send of send_tensor_meta
SendShape ==
    /\ send_pc = "shape"
    /\ send(tensor_meta(At(tensor_tuple, send_idx))[2])
    /\ send_idx' = send_idx + 1
    /\ send_pc' = "loop"
    /\ UNCHANGED tensor_tuple
    /\ recvFrame
    /\ UNCHANGED <<grpVars, enumVars, searchVars, graphVars>>

\* lines 229-231: the element is None
SendNone ==
    /\ send_pc = "loop" /\ send_idx < Len(tensor_tuple)
    /\ At(tensor_tuple, send_idx) = None
    /\ send(none_ndims_dtype)
    /\ send_idx' = send_idx + 1
    /\ UNCHANGED <<tensor_tuple, send_pc>>
    /\ recvFrame
    /\ UNCHANGED <<grpVars, enumVars, searchVars, graphVars>>

\* the for loop of send_tensor_tuple_meta is exhausted
SendReturn ==
    /\ send_pc = "loop" /\ ~(send_idx < Len(tensor_tuple))
    /\ send_pc' = "returned"
    /\ UNCHANGED <<tensor_tuple, send_idx, sent, channel>>
    /\ recvFrame
    /\ UNCHANGED <<grpVars, enumVars, searchVars, graphVars>>

\* recv(tensor, send_stage) into a buffer of the given number of elements: it
\* completes with the oldest message in flight
recv(size) ==
    /\ channel # <<>>
    /\ channel' = Tail(channel)
    /\ received' = Append(received, [size |-> size, message |-> Head(channel)])

\* lines 266-269: the count
RecvCount ==
    /\ recv_pc = "called"
    /\ recv(1)
    /\ IF Len(Head(channel)) = 1
       THEN /\ num_tensors' = Head(channel)[1]
            /\ recv_pc' = "loop"
       ELSE /\ recv_pc' = "mismatch"
            /\ UNCHANGED num_tensors
    /\ recv_idx' = 0
    /\ recv_shapes_and_dtypes' = <<>>
    /\ UNCHANGED <<recv_ndims_dtype, buffers>>
    /\ sendFrame
    /\ UNCHANGED <<grpVars, enumVars, searchVars, graphVars>>

\* lines 270-274: (ndims, dtype id) of the next element, or the marker of None
RecvNdimsDtype ==
    /\ recv_pc = "loop" /\ recv_idx < num_tensors
    /\ recv(2)
    /\ recv_ndims_dtype' = Head(channel)
    /\ IF Len(Head(channel)) # 2
       THEN /\ recv_pc' = "mismatch"
            /\ UNCHANGED <<recv_idx, recv_shapes_and_dtypes>>
       ELSE IF is_none_marker(Head(channel))
       THEN /\ recv_shapes_and_dtypes' = Append(recv_shapes_and_dtypes, none_and_none)
            /\ recv_idx' = recv_idx + 1
            /\ UNCHANGED recv_pc
       ELSE /\ recv_pc' = "shape"
            /\ UNCHANGED <<recv_idx, recv_shapes_and_dtypes>>
    /\ UNCHANGED <<num_tensors, buffers>>
    /\ sendFrame
    /\ UNCHANGED <<grpVars, enumVars, searchVars, graphVars>>

\* lines 276-280: the shape, into a buffer of recv_ndims elements
RecvShape ==
    /\ recv_pc = "shape"
    /\ recv(At(recv_ndims_dtype, 0))
    /\ IF Len(Head(channel)) = At(recv_ndims_dtype, 0)
       THEN /\ recv_shapes_and_dtypes' =
                  Append(recv_shapes_and_dtypes,
                         shape_and_dtype(Head(channel),
                                         At(ID_TO_DTYPE, At(recv_ndims_dtype, 1))))
            /\ recv_idx' = recv_idx + 1
            /\ recv_pc' = "loop"
       ELSE /\ recv_pc' = "mismatch"
            /\ UNCHANGED <<recv_idx, recv_shapes_and_dtypes>>
    /\ UNCHANGED <<num_tensors, recv_ndims_dtype, buffers>>
    /\ sendFrame
    /\ UNCHANGED <<grpVars, enumVars, searchVars, graphVars>>

\* lines 282-284: the buffers
RecvReturn ==
    /\ recv_pc = "loop" /\ ~(recv_idx < num_tensors)
    /\ buffers' = allocate_buffers(recv_shapes_and_dtypes)
    /\ recv_pc' = "returned"
    /\ UNCHANGED <<num_tensors, recv_idx, recv_ndims_dtype, recv_shapes_and_dtypes,
                   received, channel>>
    /\ sendFrame
    /\ UNCHANGED <<grpVars, enumVars, searchVars, graphVars>>

NextP2P ==
    \/ SendCount \/ SendNdimsDtype \/ SendKeyError \/ SendShape \/ SendNone \/ SendReturn
    \/ RecvCount \/ RecvNdimsDtype \/ RecvShape \/ RecvReturn

SpecP2P == InitP2P /\ [][NextP2P]_vars

(***************************************************************************)
(* The order of the messages, under SpecP2P                                *)
(***************************************************************************)
\* the id of a dtype: its 0-based position in the table
DtypeId(dtype) == CHOOSE k \in 0..(Len(ID_TO_DTYPE) - 1) : ID_TO_DTYPE[k + 1] = dtype

HasDtypeId(dtype) == \E k \in 1..Len(ID_TO_DTYPE) : ID_TO_DTYPE[k] = dtype

\* the metadata of one element
ElementMessages(element) ==
    IF element.kind = "Tensor"
    THEN << << Len(element.shape), DtypeId(element.dtype) >>, element.shape >>
    ELSE << << -1, -1 >> >>

\* the count followed by the metadata of the first n elements
RECURSIVE MessagesUpTo(_, _)
MessagesUpTo(tuple, n) ==
    IF n = 0 THEN << << Len(tuple) >> >>
    ELSE MessagesUpTo(tuple, n - 1) \o ElementMessages(tuple[n])

IsPrefix(l, m) == Len(l) <= Len(m) /\ l = SubSeq(m, 1, Len(l))

\* C23: the messages send_tensor_tuple_meta has sent are, at every moment, the
\* count followed by the metadata of the elements in index order - for a
\* tensor (ndims, dtype id) and then the shape, for None (-1, -1) - and nothing
\* else: at the head of its loop it has sent exactly the metadata of the
\* elements before the index, and when it returns, that of all of them.
C23_MetaMessageOrder ==
    /\ send_pc = "called" => sent = <<>>
    /\ send_pc \in {"loop", "raised", "returned"} => sent = MessagesUpTo(tensor_tuple, send_idx)
    /\ send_pc = "shape" =>
          /\ IsPrefix(sent, MessagesUpTo(tensor_tuple, send_idx + 1))
          /\ Len(sent) = Len(MessagesUpTo(tensor_tuple, send_idx)) + 1
    /\ send_pc = "returned" => send_idx = Len(tensor_tuple)
    /\ send_pc = "raised" => ~HasDtypeId(At(tensor_tuple, send_idx).dtype)

\* the call has returned for a tuple of a tensor of two dimensions and None
C23_Witness ==
    /\ send_pc = "returned"
    /\ Len(tensor_tuple) = 2
    /\ tensor_tuple[1].kind = "Tensor" /\ Len(tensor_tuple[1].shape) = 2
    /\ tensor_tuple[2] = None
    /\ Len(sent) = 4

(***************************************************************************)
(* Sender and receiver in lock-step, under SpecP2P                         *)
(***************************************************************************)
\* the receiver waits in a recv for a message that is not in flight and that
\* the sender will not send
ReceiverBlocked ==
    /\ send_pc \in {"returned", "raised"}
    /\ channel = <<>>
    /\ \/ recv_pc \in {"called", "shape"}
       \/ recv_pc = "loop" /\ recv_idx < num_tensors

\* the receiver's buffers agree with the sender's tuple
BuffersMatch ==
    /\ Len(buffers) = Len(tensor_tuple)
    /\ \A k \in 1..Len(buffers) :
          /\ buffers[k].kind = tensor_tuple[k].kind
          /\ buffers[k].shape = tensor_tuple[k].shape
          /\ buffers[k].dtype = tensor_tuple[k].dtype

LockStep ==
    /\ Len(received) <= Len(sent)
    /\ \A k \in 1..Len(received) :
          /\ received[k].message = sent[k]
          /\ received[k].size = Len(sent[k])
    /\ recv_pc # "mismatch"
    /\ send_pc # "raised"
    /\ ~ReceiverBlocked
    /\ recv_pc = "returned" =>
          /\ send_pc \in {"loop", "returned"} /\ send_idx = Len(tensor_tuple)
          /\ channel = <<>>
          /\ Len(received) = Len(sent)
          /\ BuffersMatch

\* C30: for every tuple of tensors and None, the recv calls of
\* recv_tensor_tuple_meta complete with the messages of send_tensor_tuple_meta
\* in their order and with buffers of their sizes, neither side is left
\* blocked, no message is left in flight when both have returned, and the
\* buffers returned have the count of the tuple, its shapes and dtypes, and
\* None at the positions of None.
C30_LockStep == LockStep

\* every tensor of the tuple has a dtype of the table
AllDtypesHaveId ==
    \A k \in 1..Len(tensor_tuple) :
        tensor_tuple[k].kind = "Tensor" => HasDtypeId(tensor_tuple[k].dtype)

\* the handshake of a tuple whose dtypes are all in the table
LockStepOfListedDtypes == AllDtypesHaveId => LockStep

\* both calls have returned for a tuple of a tensor and None
HandshakeCompleted ==
    /\ send_pc = "returned" /\ recv_pc = "returned"
    /\ Len(tensor_tuple) = 2
    /\ tensor_tuple[1] = None /\ tensor_tuple[2].kind = "Tensor"
    /\ Len(received) = 4

====
